---- MODULE Spec2Model ----
(***************************************************************************)
(* A model of restfulpy's documentation recorder                           *)
(* (restfulpy/testing/documentation.py): RequestSignature, FormParameter   *)
(* and DocumentaryTestApp (jwt_token, _ensure_file, document,              *)
(* send_request), and of the field extractor MetadataField.from_column     *)
(* (restfulpy/orm/metadata.py).                                            *)
(*                                                                         *)
(* Python strings are sequences of tokens.  The tokens "/", "?", "_", " "  *)
(* and "%s" are the characters the code looks at; every other token is a   *)
(* run of characters that contains none of them.  Python's None is the     *)
(* string "None" where a value may be unset.  A dict is a sequence of      *)
(* [key, value] records in insertion order, without repeated keys.         *)
(***************************************************************************)
EXTENDS Integers, Sequences, FiniteSets, TLC

\* ------------------------------------------------------------------ strings

\* str.split(sep): the pieces between the occurrences of sep, at least one.
RECURSIVE Split(_, _)
Split(s, sep) ==
    IF \A i \in 1..Len(s) : s[i] # sep
    THEN <<s>>
    ELSE LET k == CHOOSE i \in 1..Len(s) :
                      s[i] = sep /\ \A j \in 1..(i - 1) : s[j] # sep
         IN  <<SubSeq(s, 1, k - 1)>> \o Split(SubSeq(s, k + 1, Len(s)), sep)

\* str.strip(): leading and trailing whitespace removed.
RECURSIVE Strip(_)
Strip(s) ==
    IF s = <<>> THEN s
    ELSE IF Head(s) = " " THEN Strip(Tail(s))
    ELSE IF s[Len(s)] = " " THEN Strip(SubSeq(s, 1, Len(s) - 1))
    ELSE s

\* sep.join(parts)
RECURSIVE Join(_, _)
Join(parts, sep) ==
    IF parts = <<>> THEN <<>>
    ELSE IF Len(parts) = 1 THEN parts[1]
    ELSE parts[1] \o <<sep>> \o Join(Tail(parts), sep)

\* str.lower() on the method names in use.
Lower(m) ==
    CASE m = "GET" -> "get"
      [] m = "POST" -> "post"
      [] m = "PUT" -> "put"
      [] OTHER -> m

\* str.upper() on the method names in use.
Upper(m) ==
    CASE m = "get" -> "GET"
      [] m = "post" -> "POST"
      [] m = "put" -> "PUT"
      [] OTHER -> m

\* list[a:b] of Python, 0-based, clipped to the list.
Slice(l, a, b) ==
    SubSeq(l, a + 1, IF b < Len(l) THEN b ELSE Len(l))

\* ---------------------------------------------------------------- grouping

\* url.split('?')[0].split('/')[1:]
PathParts(url) ==
    Tail(Split(Split(url, "?")[1], "/"))

\* document, the derivation of the group file name and the entity heading.
\* raised: the unpacking "version, entity = path_parts[0:2]" got fewer than
\* two values (ValueError).
MultiSegmentGroupingFirstEntity(method, path_parts) ==
    [raised   |-> Len(Slice(path_parts, 0, 2)) # 2,
     entity   |-> IF Len(path_parts) >= 1 THEN path_parts[1] ELSE <<>>,
     filename |-> Join(Slice(path_parts, 0, 2) \o <<<<Lower(method)>>>>, "_")]

MultiSegmentGrouping(method, path_parts) ==
    [raised   |-> Len(Slice(path_parts, 0, 2)) # 2,
     entity   |-> IF Len(path_parts) >= 2 THEN path_parts[2] ELSE <<>>,
     filename |-> Join(Slice(path_parts, 0, 2) \o <<<<Lower(method)>>>>, "_")]

Grouping(method, url) ==
    LET path_parts == PathParts(url)
    IN  IF Len(path_parts) = 1
        THEN LET p == Strip(path_parts[1])
                 name == IF p # <<>> THEN p ELSE <<"index">>
             IN  [raised |-> FALSE, entity |-> name, filename |-> name]
        ELSE MultiSegmentGrouping(method, path_parts)

\* join(self.destination_dir, '%s.md' % filename)
FilePath(destination_dir, filename) ==
    <<destination_dir, "/">> \o filename \o <<".md">>

\* --------------------------------------------------------------- signature

\* dict.keys() as a tuple: the keys in insertion order.
Keys(d) == [i \in 1..Len(d) |-> d[i].key]

\* bool(query_string), bool(params): None and the empty container are falsy.
\* The code only ever tests a query string for truth before using it, so the
\* empty sequence stands for both None and {}.
TruthyDict(d) == d # <<>>

\* RequestSignature(role, method, url,
\*                  tuple(query_string.keys()) if query_string else None)
\* The empty tuple stands for None: tuple(keys) of a truthy dict is not empty.
RequestSignature(role, method, url, query_string) ==
    [role |-> role, method |-> method, url |-> url,
     query_string |-> IF TruthyDict(query_string) THEN Keys(query_string) ELSE <<>>]

\* RequestSignature.__hash__: the hash of the tuple of the four attributes,
\* taken as collision-free.
SignatureHash(s) == <<s.role, s.method, s.url, s.query_string>>

\* RequestSignature.__eq__
SignatureEq(a, b) == SignatureHash(a) = SignatureHash(b)

\* signature in self._signatures
SeenNowhere(signatures, sig) == FALSE

Seen(signatures, sig) == \E s \in signatures : SignatureEq(s, sig)

\* ---------------------------------------------------------- FormParameter

\* FormParameter(name, value=None, type_=str, optional=False, default=None).
\* type_ is a type's name ("str", "int", "bool"), a tag ("file", "attachment")
\* or "None"; optional is "True", "False" or "None".
FormParameter(name, value, type_, optional, default) ==
    [name |-> name, value |-> value, type_ |-> type_, optional |-> optional,
     default |-> default]

\* FormParameter.type_string
type_string(param) ==
    IF param.type_ = "None" THEN "" ELSE param.type_

\* os.path.basename on the file values in use.
Basename(v) ==
    IF v = "/tmp/a.png" THEN "a.png" ELSE v

\* str(value).lower() on the values in use.
LowerValue(v) ==
    CASE v = "True" -> "true"
      [] v = "False" -> "false"
      [] OTHER -> v

\* FormParameter.value_string
value_string(param) ==
    IF param.value = "None" THEN ""
    ELSE IF param.type_ = "file" THEN Basename(param.value)
    ELSE IF param.type_ = "bool" THEN LowerValue(param.value)
    ELSE param.value

\* FormParameter.__hash__ is hash(self.name); __eq__ compares the hashes, also
\* with a plain string on the other side (json_name in params).
ParamEq(param, json_name) == param.name = json_name

\* json_name in params
Contains(params, json_name) ==
    \E i \in 1..Len(params) : ParamEq(params[i], json_name)

\* params.index(json_name): the first position that compares equal.
IndexOf(params, json_name) ==
    CHOOSE i \in 1..Len(params) :
        ParamEq(params[i], json_name)
        /\ \A j \in 1..(i - 1) : ~ParamEq(params[j], json_name)

\* ------------------------------------------------------------------ schema

\* A column the model yields: json is info['json']; default is the column's
\* default ([kind |-> "none" | "scalar" | "callable", arg]); attachment tells
\* 'attachment' in column.info; unreadable tells a truthy info['unreadable'];
\* python_type is column.type.python_type, "NotImplemented" when the type
\* raises NotImplementedError; nullable is "True" or "False".
Column(json, default, attachment, unreadable, python_type, nullable) ==
    [json |-> json, default |-> default, attachment |-> attachment,
     unreadable |-> unreadable, python_type |-> python_type,
     nullable |-> nullable]

\* model.iter_json_columns(relationships=False, include_readonly_columns=False)
\* with model.get_column(c) of each: a model is given by the columns this
\* yields, in order (model.columns), which are the documentable columns that
\* are neither relationships nor read-only.
iter_json_columns(model) == model.columns

\* document, lines 121-124: the default shown for a column.
ColumnDefault(column) ==
    IF column.default.kind # "none"
    THEN IF column.default.kind = "scalar" THEN column.default.arg
         ELSE "function(...)"
    ELSE ""

\* document, lines 126-130: the type recorded for a column.
ColumnType(column) ==
    IF column.attachment THEN "attachment"
    ELSE IF column.unreadable THEN "str"
    ELSE column.python_type

\* column.type.python_type is evaluated, and raises.
ColumnTypeRaises(column) ==
    ~column.attachment /\ ~column.unreadable
    /\ column.python_type = "NotImplemented"

\* document, lines 133-138: an explicit parameter matched by a column.
BackfillOverwritingType(param, column) ==
    [param EXCEPT !.default = ColumnDefault(column),
                  !.type_ = ColumnType(column),
                  !.optional = IF @ = "None" THEN column.nullable ELSE @]

BackfillOverwritingOptional(param, column) ==
    [param EXCEPT !.default = ColumnDefault(column),
                  !.type_ = IF @ = "None" THEN ColumnType(column) ELSE @,
                  !.optional = column.nullable]

Backfill(param, column) ==
    [param EXCEPT !.default = ColumnDefault(column),
                  !.type_ = IF @ = "None" THEN ColumnType(column) ELSE @,
                  !.optional = IF @ = "None" THEN column.nullable ELSE @]

\* document, lines 132-145: one iteration of the loop over the columns.
MergeColumnAlwaysAppend(params, column) ==
    Append(params, FormParameter(column.json, "None", ColumnType(column),
                                 column.nullable, ColumnDefault(column)))

MergeColumn(params, column) ==
    IF Contains(params, column.json)
    THEN [params EXCEPT ![IndexOf(params, column.json)] = Backfill(@, column)]
    ELSE Append(params, FormParameter(column.json, "None", ColumnType(column),
                                      column.nullable, ColumnDefault(column)))

\* document, lines 117-145: the loop.  done counts the columns merged; raised
\* tells that the next column's type raised, which ends the loop there.
RECURSIVE MergeLoop(_, _, _)
MergeLoop(params, columns, done) ==
    IF done = Len(columns)
    THEN [params |-> params, raised |-> FALSE, done |-> done]
    ELSE IF ColumnTypeRaises(columns[done + 1])
    THEN [params |-> params, raised |-> TRUE, done |-> done]
    ELSE MergeLoop(MergeColumn(params, columns[done + 1]), columns, done + 1)

\* params: [kind |-> "none" | "list" | "dict", list, dict].  bool(params).
TruthyParams(params) ==
    \/ params.kind = "list" /\ params.list # <<>>
    \/ params.kind = "dict" /\ params.dict # <<>>

\* document, line 116: "if params and model".  model: [given, columns].
MergeGuard(params, model) == TruthyParams(params) /\ model.given

\* document, lines 116-145: the merge, on the caller's list in place.
Merge(params, model) ==
    IF MergeGuard(params, model)
    THEN LET r == MergeLoop(params.list, iter_json_columns(model), 0)
         IN  [params |-> [params EXCEPT !.list = r.params],
              raised |-> r.raised, done |-> r.done, ran |-> TRUE]
    ELSE [params |-> params, raised |-> FALSE, done |-> 0, ran |-> FALSE]

\* ------------------------------------------------------------------- state

VARIABLES
    signatures,   \* DocumentaryTestApp._signatures, shared by all instances
    files,        \* DocumentaryTestApp._files, shared by all instances
    fs,           \* the file system: path -> the chunks written to the file
    open_files,   \* the paths with a file object opened and not closed
    last,         \* the last call: its arguments and what it did
    ncalls,       \* the number of calls made
    requests,     \* the real URLs the test client was asked for so far
    extra_environ, \* self.extra_environ of each instance (a dict)
    jwt_token     \* self._jwt_token of each instance

vars == <<signatures, files, fs, open_files, last, ncalls, requests,
          extra_environ, jwt_token>>

\* The recorder instances and self.destination_dir of each.
Instances == {"A", "B"}

destination_dir(self) == IF self = "A" THEN "docsA" ELSE "docsB"

\* ------------------------------------------------------------ _ensure_file

HeaderChunk(entity) == [kind |-> "header", entity |-> entity]

SeparatorChunk == [kind |-> "sep"]

Exists(fsys, filename) == filename \in DOMAIN fsys

\* f.write(chunk) on a file opened for writing or appending.
Write(fsys, filename, chunk) ==
    [fsys EXCEPT ![filename] = Append(@, chunk)]

\* open(filename, 'a'): the file is created empty when it does not exist.
OpenAppend(fsys, filename) ==
    IF Exists(fsys, filename) THEN fsys
    ELSE [f \in DOMAIN fsys \cup {filename} |->
            IF f = filename THEN <<>> ELSE fsys[f]]

\* open(filename, 'w'): the file is created, or truncated.
OpenWrite(fsys, filename) ==
    [f \in DOMAIN fsys \cup {filename} |->
        IF f = filename THEN <<>> ELSE fsys[f]]

\* filename in self._files
RegisteredByGroup(registry, filename) ==
    \E i \in 1..Len(registry) : Tail(registry[i]) = Tail(filename)

Registered(registry, filename) ==
    \E i \in 1..Len(registry) : registry[i] = filename

\* DocumentaryTestApp._ensure_file: the registry and the file system after it.
\* (Opening the file and writing the header are taken not to fail.)
ensure_file_never_registers(registry, fsys, filename, entity) ==
    [files |-> registry,
     fs    |-> Write(OpenWrite(fsys, filename), filename, HeaderChunk(entity))]

ensure_file(registry, fsys, filename, entity) ==
    IF Registered(registry, filename)
    THEN [files |-> registry, fs |-> OpenAppend(fsys, filename)]
    ELSE [files |-> Append(registry, filename),
          fs    |-> Write(OpenWrite(fsys, filename), filename, HeaderChunk(entity))]

\* ---------------------------------------------------------------- document

\* document, lines 153-159: the rows of the parameter table.
ParameterRowsOwnOptional(method, params) ==
    IF TruthyParams(params) /\ params.kind = "list"
    THEN [i \in 1..Len(params.list) |->
            [name     |-> params.list[i].name,
             optional |-> params.list[i].optional,
             type_    |-> type_string(params.list[i]),
             default  |-> IF params.list[i].default # "None"
                          THEN params.list[i].default ELSE "",
             example  |-> value_string(params.list[i])]]
    ELSE <<>>

ParameterRows(method, params) ==
    IF TruthyParams(params) /\ params.kind = "list"
    THEN [i \in 1..Len(params.list) |->
            [name     |-> params.list[i].name,
             optional |-> IF Lower(method) = "put" THEN "True"
                          ELSE params.list[i].optional,
             type_    |-> type_string(params.list[i]),
             default  |-> IF params.list[i].default # "None"
                          THEN params.list[i].default ELSE "",
             example  |-> value_string(params.list[i])]]
    ELSE <<>>

\* document, lines 148-181: what the try block writes.  complete tells that
\* the block ran to its end; it stops at resp.body.decode() when the body
\* does not decode, after the heading, the tables and the headers.
EntryChunk(role, method, url, params, query_string, resp) ==
    [kind         |-> "entry",
     role         |-> role,
     method       |-> Upper(method),
     url          |-> url,
     query_string |-> query_string,
     rows         |-> ParameterRows(method, params),
     complete     |-> resp.decodable]

\* The state a call starts from.
Shared == [signatures |-> signatures, files |-> files, fs |-> fs,
           open_files |-> open_files]

\* What a call that did not reach the file leaves behind.
Untouched(st, params, outcome, error) ==
    [signatures |-> st.signatures, files |-> st.files, fs |-> st.fs,
     open_files |-> st.open_files, params |-> params, outcome |-> outcome,
     error |-> error, acquired |-> FALSE, filename |-> <<>>,
     merge_ran |-> FALSE, merge_done |-> 0]

\* document, line 182, and whether the signature is recorded at all.
AddSignatureNever(sigs, sig, complete) == sigs

AddSignatureAlways(sigs, sig, complete) == sigs \cup {sig}

AddSignature(sigs, sig, complete) ==
    IF complete THEN sigs \cup {sig} ELSE sigs

\* document, lines 147-187, once the file is acquired and the merge is done:
\* the entry, the signature, the trailing separator and the close.
\* sep_fails: the write of the finally block fails (an I/O error), so that
\* f.close() is not reached.
WriteEntry(st, ef, mg, sig, filename, role, method, url, query_string, resp, sep_fails) ==
    LET entry == EntryChunk(role, method, url, mg.params, query_string, resp)
        fs1   == Write(ef.fs, filename, entry)
    IN  [signatures |-> AddSignature(st.signatures, sig, entry.complete),
         files      |-> ef.files,
         fs         |-> IF sep_fails THEN fs1
                        ELSE Write(fs1, filename, SeparatorChunk),
         open_files |-> IF sep_fails THEN st.open_files \cup {filename}
                        ELSE st.open_files,
         params     |-> mg.params,
         outcome    |-> IF sep_fails \/ ~entry.complete THEN "raised"
                        ELSE "written",
         error      |-> IF sep_fails THEN "separator"
                        ELSE IF ~entry.complete THEN "entry" ELSE "none",
         acquired   |-> TRUE,
         filename   |-> filename,
         merge_ran  |-> mg.ran,
         merge_done |-> mg.done]

\* DocumentaryTestApp.document
document(st, self, role, method, url, resp, model, params, query_string, sep_fails) ==
    LET signature == RequestSignature(role, method, url, query_string)
        g         == Grouping(method, url)
        filename  == FilePath(destination_dir(self), g.filename)
        ef        == ensure_file(st.files, st.fs, filename, g.entity)
        mg        == Merge(params, model)
    IN  IF Seen(st.signatures, signature)
        THEN Untouched(st, params, "skipped", "none")
        ELSE IF g.raised
        THEN Untouched(st, params, "raised", "grouping")
        ELSE IF mg.raised
        THEN [signatures |-> st.signatures, files |-> ef.files, fs |-> ef.fs,
              open_files |-> st.open_files \cup {filename},
              params |-> mg.params, outcome |-> "raised", error |-> "merge",
              acquired |-> TRUE, filename |-> filename,
              merge_ran |-> mg.ran, merge_done |-> mg.done]
        ELSE WriteEntry(st, ef, mg, signature, filename, role, method, url,
                        query_string, resp, sep_fails)

\* ------------------------------------------------------------ send_request

\* d[k] = v on a dict: the value is replaced in place, or the key appended.
DictSet(d, k, v) ==
    IF \E i \in 1..Len(d) : d[i].key = k
    THEN [i \in 1..Len(d) |-> IF d[i].key = k THEN [key |-> k, value |-> v]
                               ELSE d[i]]
    ELSE Append(d, [key |-> k, value |-> v])

\* d.update(other)
RECURSIVE DictUpdate(_, _)
DictUpdate(d, other) ==
    IF other = <<>> THEN d
    ELSE DictUpdate(DictSet(d, Head(other).key, Head(other).value), Tail(other))

\* send_request, lines 200-204: the uploads of a parameter list.
RECURSIVE UploadFiles(_)
UploadFiles(list) ==
    IF list = <<>> THEN <<>>
    ELSE IF Head(list).type_ = "file"
    THEN <<[key |-> Head(list).name, value |-> Head(list).value]>>
         \o UploadFiles(Tail(list))
    ELSE UploadFiles(Tail(list))

\* send_request, lines 200-204: the ordinary parameters of a parameter list.
RECURSIVE OrdinaryParameters(_, _)
OrdinaryParameters(list, acc) ==
    IF list = <<>> THEN acc
    ELSE IF Head(list).type_ = "file"
    THEN OrdinaryParameters(Tail(list), acc)
    ELSE OrdinaryParameters(Tail(list),
                            DictSet(acc, Head(list).name, Head(list).value))

\* send_request, lines 193-198: a truthy dict passed as params turns the
\* documentation off.
DocAfterParamsKeepsDoc(params, doc) == doc

DocAfterParams(params, doc) ==
    IF TruthyParams(params) /\ params.kind = "dict" THEN FALSE ELSE doc

\* send_request, lines 191-207: the parameter bag sent on the wire.
Parameters(params, query_string) ==
    LET own == IF ~TruthyParams(params) THEN <<>>
               ELSE IF params.kind = "dict" THEN params.dict
               ELSE OrdinaryParameters(params.list, <<>>)
    IN  IF TruthyDict(query_string) THEN DictUpdate(own, query_string) ELSE own

\* The caller's params object after lines 191-207: a truthy dict is the bag
\* itself, so the query string is merged into it.
ParamsAfterPartition(params, query_string) ==
    IF TruthyParams(params) /\ params.kind = "dict"
    THEN [params EXCEPT !.dict = Parameters(params, query_string)]
    ELSE params

Count(s, tok) == Cardinality({i \in 1..Len(s) : s[i] = tok})

\* url % url_params with a tuple of values: each %s takes the next value.
RECURSIVE Substitute(_, _)
Substitute(url, values) ==
    IF url = <<>> THEN <<>>
    ELSE IF Head(url) = "%s" /\ values # <<>>
    THEN <<Head(values)>> \o Substitute(Tail(url), Tail(values))
    ELSE <<Head(url)>> \o Substitute(Tail(url), values)

\* urllib.parse.quote on the tokens in use: "/" is safe.
QuoteToken(t) ==
    CASE t = "?" -> "%3F"
      [] t = " " -> "%20"
      [] t = "%s" -> "%25s"
      [] OTHER -> t

quote(url) == [i \in 1..Len(url) |-> QuoteToken(url[i])]

\* send_request, lines 214-215.  raised: the % operator got a number of
\* values other than the number of placeholders (TypeError).
RealUrl(url, url_params) ==
    IF url_params # <<>>
    THEN [raised |-> Count(url, "%s") # Len(url_params),
          url |-> quote(Substitute(url, url_params))]
    ELSE [raised |-> FALSE, url |-> quote(url)]

\* send_request, lines 219-221: the value returned once the client answered
\* and document (when called) came back with this outcome.
ReturnedOnlyWhenWritten(resp, outcome) ==
    IF outcome = "written" THEN resp.id ELSE "None"

Returned(resp, outcome) ==
    IF outcome = "raised" THEN "None" ELSE resp.id

\* send_request, line 220: the URL handed to document is the url argument,
\* not real_url.
DocumentedUrlReal(url, real_url) == real_url

DocumentedUrl(url, real_url) == url

\* DocumentaryTestApp.send_request.  resp is the client's answer to the
\* request; dispatched tells that the client was called.
send_request(st, self, role, method, url, query_string, url_params, params, model, doc, resp, sep_fails) ==
    LET doc1  == DocAfterParams(params, doc)
        wire  == [method |-> Lower(method),
                  url |-> RealUrl(url, url_params).url,
                  params |-> Parameters(params, query_string),
                  upload_files |-> IF TruthyParams(params) /\ params.kind = "list"
                                   THEN UploadFiles(params.list) ELSE <<>>]
        params1 == ParamsAfterPartition(params, query_string)
        d     == IF doc1
                 THEN document(st, self, role, method,
                               DocumentedUrl(url, RealUrl(url, url_params).url),
                               resp, model, params1, query_string, sep_fails)
                 ELSE Untouched(st, params1, "not documented", "none")
    IN  IF RealUrl(url, url_params).raised
        THEN [result |-> Untouched(st, params1, "raised", "url"),
              dispatched |-> FALSE, wire |-> wire, doc_called |-> FALSE,
              returned |-> "None"]
        ELSE [result |-> d, dispatched |-> TRUE, wire |-> wire,
              doc_called |-> doc1,
              returned |-> Returned(resp, d.outcome)]

\* ------------------------------------------------------------------ inputs

MaxCalls == 2

NoParams == [kind |-> "none", list |-> <<>>, dict |-> <<>>]
ListParams(l) == [kind |-> "list", list |-> l, dict |-> <<>>]
DictParams(d) == [kind |-> "dict", list |-> <<>>, dict |-> d]

NoModel == [given |-> FALSE, columns |-> <<>>]
Model(columns) == [given |-> TRUE, columns |-> columns]

NoDefault == [kind |-> "none", arg |-> ""]
ScalarDefault(v) == [kind |-> "scalar", arg |-> v]
CallableDefault == [kind |-> "callable", arg |-> ""]

Item(k, v) == [key |-> k, value |-> v]

\* The client's answers: one whose body decodes, one whose body does not.
Responses == {[id |-> "r1", decodable |-> TRUE], [id |-> "r2", decodable |-> FALSE]}

GoodResponse == [id |-> "r1", decodable |-> TRUE]
BadResponse == [id |-> "r2", decodable |-> FALSE]

UrlRoot == <<"/">>
UrlWidgets == <<"/", "widgets">>
UrlV1Widgets == <<"/", "v1", "/", "widgets">>
UrlCreate == <<"/", "v1", "/", "widgets", "/", "create">>
UrlTemplate == <<"/", "v1", "/", "widgets", "/", "%s">>

TitleColumn == Column("title", ScalarDefault("untitled"), FALSE, FALSE, "str", "True")
AgeColumnRaising == Column("age", NoDefault, FALSE, FALSE, "NotImplemented", "False")

TitleParam == FormParameter("title", "x", "None", "None", "None")

CoreUrls == {UrlWidgets, UrlV1Widgets}

CoreQueries ==
    {<<>>, <<Item("a", "1")>>, <<Item("a", "2")>>,
     <<Item("a", "1"), Item("b", "1")>>, <<Item("b", "1"), Item("a", "1")>>}

\* What goes with a request: the parameters, the model, the client's answer
\* and whether the write of the finally block fails.
Plain == [params |-> NoParams, model |-> NoModel, resp |-> GoodResponse, sep_fails |-> FALSE]

Scenarios ==
    {Plain,
     [params |-> ListParams(<<TitleParam>>), model |-> Model(<<TitleColumn>>),
      resp |-> GoodResponse, sep_fails |-> FALSE],
     [params |-> ListParams(<<TitleParam>>), model |-> Model(<<TitleColumn, AgeColumnRaising>>),
      resp |-> GoodResponse, sep_fails |-> FALSE],
     [params |-> NoParams, model |-> NoModel, resp |-> BadResponse, sep_fails |-> FALSE],
     [params |-> NoParams, model |-> NoModel, resp |-> GoodResponse, sep_fails |-> TRUE]}

\* The calls of document: both instances, every query string and every
\* scenario on one URL, and the other roles, methods and URLs on a plain call.
DocumentInputs ==
    [self : Instances, role : {"admin"}, method : {"GET"}, url : {UrlV1Widgets},
     query_string : CoreQueries, scenario : Scenarios]
    \cup
    [self : {"A"}, role : {"admin", "guest"}, method : {"GET", "PUT"},
     url : CoreUrls, query_string : {<<>>}, scenario : {Plain}]

\* The calls of send_request.
SendInputs ==
    [self : {"A"}, role : {"admin"}, method : {"GET"},
     url : {UrlWidgets, UrlTemplate}, query_string : {<<>>},
     url_params : {<<>>, <<"7">>},
     params : {NoParams, DictParams(<<Item("title", "x")>>)},
     model : {NoModel}, doc : BOOLEAN, resp : {GoodResponse}, sep_fails : {FALSE}]

\* ----------------------------------------------------------------- actions

NoWire == [method |-> "", url |-> <<>>, params |-> <<>>, upload_files |-> <<>>]

\* The class attributes, and what no call has touched yet.
InitRecorder ==
    /\ signatures = {}
    /\ files = <<>>
    /\ fs = <<>>
    /\ open_files = {}
    /\ ncalls = 0
    /\ requests = {}
    /\ jwt_token = [i \in Instances |-> "None"]
    /\ last = [op |-> "none", self |-> "A", role |-> "", method |-> "",
               url |-> <<>>, query_string |-> <<>>, url_params |-> <<>>,
               params |-> NoParams, model |-> NoModel, doc |-> FALSE,
               resp |-> "None", sep_fails |-> FALSE,
               outcome |-> "none", error |-> "none", acquired |-> FALSE,
               filename |-> <<>>, params_out |-> NoParams,
               merge_ran |-> FALSE, merge_done |-> 0,
               dispatched |-> FALSE, wire |-> NoWire, doc_called |-> FALSE,
               returned |-> "None"]

\* Recorders constructed without extra_environ: TestApp starts from {}.
Init ==
    /\ InitRecorder
    /\ extra_environ = [i \in Instances |-> <<>>]

\* The shared state and the record of the call, after a call that left r.
Commit(r, record) ==
    /\ signatures' = r.signatures
    /\ files' = r.files
    /\ fs' = r.fs
    /\ open_files' = r.open_files
    /\ last' = record
    /\ ncalls' = ncalls + 1
    /\ requests' = IF record.dispatched THEN requests \cup {record.wire.url}
                   ELSE requests
    /\ UNCHANGED <<extra_environ, jwt_token>>

\* A call of document(role, method, url, resp, headers, model, params, query_string).
Document(self, role, method, url, resp, model, params, query_string, sep_fails) ==
    LET r == document(Shared, self, role, method, url, resp, model, params,
                      query_string, sep_fails)
    IN  Commit(r,
               [op |-> "document", self |-> self, role |-> role, method |-> method,
                url |-> url, query_string |-> query_string, url_params |-> <<>>,
                params |-> params, model |-> model, doc |-> TRUE,
                resp |-> resp.id, sep_fails |-> sep_fails,
                outcome |-> r.outcome, error |-> r.error, acquired |-> r.acquired,
                filename |-> r.filename, params_out |-> r.params,
                merge_ran |-> r.merge_ran, merge_done |-> r.merge_done,
                dispatched |-> FALSE, wire |-> NoWire, doc_called |-> TRUE,
                returned |-> "None"])

\* A call of send_request(role, method, url, query_string, url_params, params, model, doc).
SendRequest(self, role, method, url, query_string, url_params, params, model, doc, resp, sep_fails) ==
    LET s == send_request(Shared, self, role, method, url, query_string,
                          url_params, params, model, doc, resp, sep_fails)
        r == s.result
    IN  Commit(r,
               [op |-> "send_request", self |-> self, role |-> role, method |-> method,
                url |-> url, query_string |-> query_string, url_params |-> url_params,
                params |-> params, model |-> model, doc |-> doc,
                resp |-> resp.id, sep_fails |-> sep_fails,
                outcome |-> r.outcome, error |-> r.error, acquired |-> r.acquired,
                filename |-> r.filename, params_out |-> r.params,
                merge_ran |-> r.merge_ran, merge_done |-> r.merge_done,
                dispatched |-> s.dispatched, wire |-> s.wire,
                doc_called |-> s.doc_called, returned |-> s.returned])

DocumentStep ==
    /\ ncalls < MaxCalls
    /\ \E i \in DocumentInputs :
          Document(i.self, i.role, i.method, i.url, i.scenario.resp,
                   i.scenario.model, i.scenario.params, i.query_string,
                   i.scenario.sep_fails)

SendRequestStep ==
    /\ ncalls < MaxCalls
    /\ \E i \in SendInputs :
          SendRequest(i.self, i.role, i.method, i.url, i.query_string,
                      i.url_params, i.params, i.model, i.doc, i.resp, i.sep_fails)

Next == DocumentStep \/ SendRequestStep

Spec == Init /\ [][Next]_vars

\* ---------------------------------------------- the grouping of one request

MaxUrlLen == 4

UrlTokens == {"/", "v1", "widgets", "?", " "}

SeqsUpTo(S, n) == UNION {[1..k -> S] : k \in 0..n}

\* Every string of at most MaxUrlLen tokens, and each followed by "/create".
GroupUrls ==
    SeqsUpTo(UrlTokens, MaxUrlLen)
    \cup {u \o <<"/", "create">> : u \in SeqsUpTo(UrlTokens, MaxUrlLen)}

GroupMethods == {"GET", "POST", "put"}

\* The first call of document on a fresh recorder, for any URL and method.
GroupStep ==
    /\ ncalls = 0
    /\ \E url \in GroupUrls, method \in GroupMethods :
          Document("A", "admin", method, url, GoodResponse, NoModel, NoParams,
                   <<>>, FALSE)

SpecGroup == Init /\ [][GroupStep]_vars

\* ------------------------------------------------- sequences of send_request

TitleDict == DictParams(<<Item("title", "x")>>)
EmptyDict == DictParams(<<>>)

PhotoParam == FormParameter("photo", "/tmp/a.png", "file", "False", "None")

\* The calls of send_request on one URL template: every kind of params, with
\* and without a query string (whose key is also a parameter's), recording on
\* and off, a body that decodes and one that does not; and the URLs whose
\* placeholders do not match url_params.
RichSendInputs ==
    [self : {"A"}, role : {"admin"}, method : {"POST"}, url : {UrlTemplate},
     query_string : {<<>>, <<Item("title", "q")>>},
     url_params : {<<"7">>, <<"8">>},
     params : {NoParams, EmptyDict, TitleDict, ListParams(<<TitleParam, PhotoParam>>)},
     model : {Model(<<TitleColumn>>)}, doc : BOOLEAN, resp : Responses,
     sep_fails : {FALSE}]
    \cup
    [self : {"A"}, role : {"admin"}, method : {"POST"},
     url : {UrlWidgets, UrlTemplate}, query_string : {<<>>},
     url_params : {<<>>, <<"7">>, <<"7", "8">>},
     params : {TitleDict}, model : {NoModel}, doc : {TRUE},
     resp : {GoodResponse}, sep_fails : {FALSE}]

RichSendStep ==
    /\ ncalls < MaxCalls
    /\ \E i \in RichSendInputs :
          SendRequest(i.self, i.role, i.method, i.url, i.query_string,
                      i.url_params, i.params, i.model, i.doc, i.resp, i.sep_fails)

SpecSend == Init /\ [][RichSendStep]_vars

\* --------------------------------------------------- the merge of one request

\* The explicit parameters a caller may pass for one name.
ParamsNamed(name) ==
    {FormParameter(name, v, t, o, d) :
        v \in {"None", "x"}, t \in {"None", "int"}, o \in {"None", "False"},
        d \in {"None", "mine"}}

\* The caller's params: None, the empty list, and the lists of parameters
\* with distinct names among title and age.
MergeParams ==
    {NoParams, ListParams(<<>>)}
    \cup {ListParams(<<p>>) : p \in ParamsNamed("title") \cup ParamsNamed("age")}
    \cup {ListParams(<<p, q>>) : p \in ParamsNamed("title"), q \in ParamsNamed("age")}
    \cup {ListParams(<<q, p>>) : p \in ParamsNamed("title"), q \in ParamsNamed("age")}

\* The columns a model may declare under the wire name title.
TitleColumns ==
    {Column("title", d, FALSE, FALSE, "str", n) :
        d \in {NoDefault, ScalarDefault("untitled"), CallableDefault},
        n \in {"True", "False"}}
    \cup {Column("title", ScalarDefault("untitled"), FALSE, TRUE, "int", "True"),
          Column("title", NoDefault, TRUE, FALSE, "str", "False"),
          Column("title", NoDefault, FALSE, FALSE, "NotImplemented", "True")}

AgeColumn == Column("age", ScalarDefault("0"), FALSE, FALSE, "int", "False")
PhotoColumn == Column("photo", NoDefault, TRUE, FALSE, "str", "True")

\* No model, and the models of one to three columns with distinct wire names.
MergeModels ==
    {NoModel, Model(<<>>), Model(<<AgeColumn>>), Model(<<AgeColumnRaising>>)}
    \cup {Model(<<t>>) : t \in TitleColumns}
    \cup {Model(<<t, AgeColumn>>) : t \in TitleColumns}
    \cup {Model(<<AgeColumnRaising, t>>) : t \in TitleColumns}
    \cup {Model(<<PhotoColumn, t, AgeColumn>>) : t \in TitleColumns}

\* The first call of document on a fresh recorder, for any params and model.
MergeStep ==
    /\ ncalls = 0
    /\ \E params \in MergeParams, model \in MergeModels, method \in {"POST", "PUT"} :
          Document("A", "admin", method, UrlV1Widgets, GoodResponse, model,
                   params, <<>>, FALSE)

SpecMerge == Init /\ [][MergeStep]_vars

\* ------------------------------------ MetadataField.from_column (metadata.py)

\* An annotation map (column.info): json is info['json']; attachment tells
\* 'attachment' in info; message is [present, value] for the key 'message';
\* unreadable is "absent", or "True" / "False" for a truthy / falsy value.
Info(json, attachment, message, unreadable) ==
    [json |-> json, attachment |-> attachment, message |-> message,
     unreadable |-> unreadable]

NoMessage == [present |-> FALSE, value |-> "None"]
Message(v) == [present |-> TRUE, value |-> v]

\* A column as from_column reads it: key is c.key (a token sequence); default
\* as in Column; has_type tells hasattr(c, 'type') and python_type is
\* c.type.python_type ("NotImplemented" when it raises NotImplementedError);
\* has_target tells hasattr(c, 'target') and target_name is c.target.name;
\* nullable is c.nullable, "None" when the column has no such attribute.
MetaColumn(key, info, default, has_type, python_type, has_target, target_name, nullable) ==
    [key |-> key, info |-> info, default |-> default, has_type |-> has_type,
     python_type |-> python_type, has_target |-> has_target,
     target_name |-> target_name, nullable |-> nullable]

\* MetadataField.__init__, line 8: a leading underscore of the key is dropped.
FieldKey(key) ==
    IF key # <<>> /\ Head(key) = "_" THEN Tail(key) ELSE key

\* MetadataField(json_name, key, type_, default_, optional, message)
MetadataField(json_name, key, type_, default_, optional, message) ==
    [json_name |-> json_name, key |-> FieldKey(key), type_ |-> type_,
     default_ |-> default_, optional |-> optional, message |-> message]

\* from_column, lines 38-39: "if not info: info = c.info".  The info argument
\* is [given, map]; not given stands for None and for an empty map.
EffectiveInfo(c, info) == IF info.given THEN info.map ELSE c.info

\* info.get('message') if 'message' in info else fallback
MessageOr(info, fallback) ==
    IF info.message.present THEN info.message.value ELSE fallback

\* from_column, lines 43-56: the two descriptors of an attachment column.
AttachmentFieldsWithPlain(c, info) ==
    <<MetadataField(<<info.json>>, c.key, "str", "None", "None",
                    MessageOr(info, "Invalid File")),
      MetadataField(<<info.json, "Url">>, c.key \o <<"_url">>, "url", "None",
                    "None", MessageOr(info, "Invalid File")),
      MetadataField(<<info.json, "Thumbnails">>, c.key \o <<"_thumbnails">>,
                    "dict", "None", "None", MessageOr(info, "Invalid File"))>>

AttachmentFields(c, info) ==
    <<MetadataField(<<info.json, "Url">>, c.key \o <<"_url">>, "url", "None",
                    "None", MessageOr(info, "Invalid File")),
      MetadataField(<<info.json, "Thumbnails">>, c.key \o <<"_thumbnails">>,
                    "dict", "None", "None", MessageOr(info, "Invalid File"))>>

\* from_column, lines 66-73: the type of a plain column.  error is the
\* exception raised: AttributeError when the column has neither a type nor a
\* target, NotImplementedError when its type has no python_type.
ResolveTypeGuessing(c, info) ==
    IF info.unreadable = "True"
    THEN [error |-> "none", type_ |-> "str"]
    ELSE IF c.has_type
    THEN IF c.python_type = "NotImplemented"
         THEN [error |-> "NotImplementedError", type_ |-> "None"]
         ELSE [error |-> "none", type_ |-> c.python_type]
    ELSE IF c.has_target
    THEN [error |-> "none", type_ |-> c.target_name]
    ELSE [error |-> "none", type_ |-> "str"]

ResolveType(c, info) ==
    IF info.unreadable = "True"
    THEN [error |-> "none", type_ |-> "str"]
    ELSE IF c.has_type
    THEN IF c.python_type = "NotImplemented"
         THEN [error |-> "NotImplementedError", type_ |-> "None"]
         ELSE [error |-> "none", type_ |-> c.python_type]
    ELSE IF c.has_target
    THEN [error |-> "none", type_ |-> c.target_name]
    ELSE [error |-> "AttributeError", type_ |-> "None"]

\* from_column, lines 61-64: the default shown for a plain column.
FieldDefault(c) ==
    IF c.default.kind # "none"
    THEN IF c.default.kind = "scalar" THEN c.default.arg ELSE "function(...)"
    ELSE ""

\* from_column, lines 59-87: the descriptor of a plain column, once its type
\* is resolved.  (The pattern, length and watermark hints are left out.)
PlainFields(c, info, type_) ==
    <<MetadataField(<<info.json>>, c.key, type_, FieldDefault(c), c.nullable,
                    MessageOr(info, "Invalid Value"))>>

\* MetadataField.from_column(c, info): the list returned, or the exception.
from_column(c, info_arg) ==
    LET info == EffectiveInfo(c, info_arg)
        t    == ResolveType(c, info)
    IN  IF info.attachment
        THEN [raised |-> FALSE, error |-> "none", result |-> AttachmentFields(c, info)]
        ELSE IF t.error # "none"
        THEN [raised |-> TRUE, error |-> t.error, result |-> <<>>]
        ELSE [raised |-> FALSE, error |-> "none",
              result |-> PlainFields(c, info, t.type_)]

\* The annotation maps and the columns handed to from_column.
ExtractInfos ==
    {Info(j, a, m, u) :
        j \in {"photo", "title"}, a \in BOOLEAN,
        m \in {NoMessage, Message("Bad upload")},
        u \in {"absent", "True", "False"}}

ExtractColumns ==
    {MetaColumn(k, i, d, ht, pt, tg, "Widget", n) :
        k \in {<<"photo">>, <<"_", "title">>}, i \in ExtractInfos,
        d \in {NoDefault, ScalarDefault("untitled"), CallableDefault},
        ht \in BOOLEAN, pt \in {"str", "NotImplemented"}, tg \in BOOLEAN,
        n \in {"None", "True"}}

NoInfo == [given |-> FALSE, map |-> Info("", FALSE, NoMessage, "absent")]

\* info=None, and two maps that override the column's own.
ExtractInfoArgs ==
    {NoInfo,
     [given |-> TRUE, map |-> Info("avatar", TRUE, NoMessage, "absent")],
     [given |-> TRUE, map |-> Info("name", FALSE, Message("Bad name"), "True")]}

\* A call of MetadataField.from_column(c, info).
FromColumn(c, info) ==
    LET r == from_column(c, info)
    IN  /\ last' = [op |-> "from_column", c |-> c, info |-> info,
                    raised |-> r.raised, error |-> r.error, result |-> r.result]
        /\ ncalls' = ncalls + 1
        /\ UNCHANGED <<signatures, files, fs, open_files, requests,
                       extra_environ, jwt_token>>

ExtractStep ==
    /\ ncalls = 0
    /\ \E c \in ExtractColumns, info \in ExtractInfoArgs : FromColumn(c, info)

SpecExtract == Init /\ [][ExtractStep]_vars

\* ------------------------------------------- DocumentaryTestApp.jwt_token

\* DocumentaryTestApp.__jwt_header_key__
JwtHeaderKey == "HTTP_X_JWT_TOKEN"

\* key in d
DictHas(d, k) == \E i \in 1..Len(d) : d[i].key = k

\* del d[key]: the other entries keep their order.
RECURSIVE DictDel(_, _)
DictDel(d, k) ==
    IF d = <<>> THEN <<>>
    ELSE IF Head(d).key = k THEN DictDel(Tail(d), k)
    ELSE <<Head(d)>> \o DictDel(Tail(d), k)

\* The jwt_token setter, lines 78-84: self.extra_environ after the
\* assignment of value.
jwt_token_setter_keeping_header(environ, value) ==
    IF value # "None"
    THEN DictUpdate(environ, <<Item(JwtHeaderKey, value)>>)
    ELSE environ

jwt_token_setter(environ, value) ==
    IF value # "None"
    THEN DictUpdate(environ, <<Item(JwtHeaderKey, value)>>)
    ELSE IF DictHas(environ, JwtHeaderKey)
    THEN DictDel(environ, JwtHeaderKey)
    ELSE environ

\* The values assigned: None, the empty string and two tokens.
Tokens == {"None", "", "t1", "t2"}

\* The extra_environ a recorder is constructed with: TestApp keeps the dict
\* it is given, which may already hold the header.
InitialEnvirons ==
    {<<>>,
     <<Item("REMOTE_USER", "u")>>,
     <<Item(JwtHeaderKey, "old")>>,
     <<Item(JwtHeaderKey, "old"), Item("REMOTE_USER", "u")>>,
     <<Item("REMOTE_USER", "u"), Item(JwtHeaderKey, "old")>>}

\* The instances whose jwt_token has been assigned so far.
Assigned == IF last.op = "jwt_token" THEN last.assigned ELSE {}

\* self.jwt_token = value
SetJwtToken(self, value) ==
    /\ jwt_token' = [jwt_token EXCEPT ![self] = value]
    /\ extra_environ' =
          [extra_environ EXCEPT ![self] = jwt_token_setter(@, value)]
    /\ last' = [op |-> "jwt_token", self |-> self, value |-> value,
                assigned |-> Assigned \cup {self}]
    /\ UNCHANGED <<signatures, files, fs, open_files, ncalls, requests>>

JwtStep == \E self \in Instances, value \in Tokens : SetJwtToken(self, value)

InitJwt ==
    /\ InitRecorder
    /\ extra_environ \in [Instances -> InitialEnvirons]

SpecJwt == InitJwt /\ [][JwtStep]_vars

\* ------------------------------------------------------------------ claims

Range(seq) == {seq[i] : i \in 1..Len(seq)}

IsEntry(c) == c.kind = "entry"
IsHeader(c) == c.kind = "header"

\* The positions of the complete entries of a file.
CompleteEntries(f) == {i \in 1..Len(fs[f]) : IsEntry(fs[f][i]) /\ fs[f][i].complete}

\* Two entries document the same role, method, URL and set of query keys.
SameRequest(a, b) ==
    /\ a.role = b.role
    /\ a.method = b.method
    /\ a.url = b.url
    /\ Range(Keys(a.query_string)) = Range(Keys(b.query_string))

\* C1 (as stated): no output file holds two complete entries for the same
\* role, method, URL and set of query-string keys: the second such request
\* is skipped.
C1_OneEntryPerKeySet ==
    \A f \in DOMAIN fs : \A i, j \in CompleteEntries(f) :
        SameRequest(fs[f][i], fs[f][j]) => i = j

\* C2 (as stated): a document call whose role, method and URL are those of a
\* recorded signature and whose query string has the same set of keys, in any
\* order and with any values, is skipped.
C2_SameKeySetSkipped ==
    [][\A s \in signatures :
          ( /\ ncalls' = ncalls + 1
            /\ last'.doc_called
            /\ s.role = last'.role
            /\ s.method = last'.method
            /\ s.url = last'.url
            /\ Range(s.query_string) = Range(Keys(last'.query_string)) )
          => last'.outcome = "skipped"]_vars

\* Every file starts with its header block and holds no other.
HeaderOnce ==
    \A f \in DOMAIN fs :
        /\ Len(fs[f]) >= 1
        /\ \A i \in 1..Len(fs[f]) : IsHeader(fs[f][i]) <=> i = 1

\* A step keeps every file and, in each, what was written before.
AppendOnly ==
    \A f \in DOMAIN fs :
        /\ f \in DOMAIN fs'
        /\ Len(fs'[f]) >= Len(fs[f])
        /\ SubSeq(fs'[f], 1, Len(fs[f])) = fs[f]

\* C3: each group file holds exactly one header block, written by the first
\* write to the group, and every later write appends to what is there, also
\* after an entry whose writing failed.
C3_IdempotentHeader == []HeaderOnce /\ [][AppendOnly]_vars

\* C3 witness: a file with its header, an entry whose writing failed and a
\* later, complete entry appended after it.
C3_Witness ==
    \E f \in DOMAIN fs : \E i, j \in 1..Len(fs[f]) :
        /\ i < j
        /\ IsEntry(fs[f][i]) /\ ~fs[f][i].complete
        /\ IsEntry(fs[f][j]) /\ fs[f][j].complete
        /\ IsHeader(fs[f][1])

\* C6 (as stated): once document has acquired the group file, the file object
\* is closed when document returns or raises: no file is left open.
C6_HandleReleased ==
    last.acquired => last.filename \notin open_files

\* The segment names of the URLs (tokens that are not "/", "?" or blank).
SegmentNames == {"v1", "widgets", "create"}

\* The URL is prefix, alone or followed by a query string or a further segment.
StartsWith(url, prefix, followers) ==
    /\ Len(url) >= Len(prefix)
    /\ SubSeq(url, 1, Len(prefix)) = prefix
    /\ (Len(url) = Len(prefix) \/ url[Len(prefix) + 1] \in followers)

\* The last call wrote to the file name.md of its destination, and created it
\* with the entity heading.
WroteGroup(name, entity) ==
    /\ last.acquired
    /\ last.filename = <<"docsA", "/">> \o name \o <<".md">>
    /\ fs[last.filename][1] = [kind |-> "header", entity |-> entity]

\* C4: /<s> goes to group s with entity s; / goes to group index; and
\* /<a>/<b>, whatever follows, goes to group a_b_<method lower-cased>
\* with entity b.
C4_Grouping ==
    last.op = "document" =>
        /\ \A s1 \in SegmentNames :
              StartsWith(last.url, <<"/", s1>>, {"?"}) => WroteGroup(<<s1>>, <<s1>>)
        /\ StartsWith(last.url, <<"/">>, {"?"}) => WroteGroup(<<"index">>, <<"index">>)
        /\ \A a, b \in SegmentNames :
              StartsWith(last.url, <<"/", a, "/", b>>, {"/", "?"})
              => WroteGroup(<<a, "_", b, "_", Lower(last.method)>>, <<b>>)

\* C4 witness: POST /v1/widgets/create was written to v1_widgets_post.md.
C4_Witness ==
    /\ last.op = "document"
    /\ last.url = UrlCreate
    /\ last.method = "POST"
    /\ last.filename = <<"docsA", "/", "v1", "_", "widgets", "_", "post", ".md">>
    /\ fs[last.filename][1].entity = <<"widgets">>

SentRequest == last.op = "send_request"

FlatMapping(params) == params.kind = "dict"

\* Every entry of the mapping is in the bag sent on the wire.
SentWith(d, wire_params) ==
    \A i \in 1..Len(d) : \E j \in 1..Len(wire_params) : wire_params[j] = d[i]

\* Every key of the mapping is sent, with its value or with the value the
\* query string gives that key.
SentWithUnlessQueried(d, query_string, wire_params) ==
    \A i \in 1..Len(d) : \E j \in 1..Len(wire_params) :
        /\ wire_params[j].key = d[i].key
        /\ IF \E q \in 1..Len(query_string) : query_string[q].key = d[i].key
           THEN \E q \in 1..Len(query_string) : query_string[q] = wire_params[j]
           ELSE wire_params[j].value = d[i].value

\* C7 (as stated): a send_request with a flat mapping as params and recording
\* requested changes neither the seen-set nor any file, dispatches the request
\* with those parameters and returns the response.
C7_FlatMappingSkipsDocumentation ==
    [][( /\ ncalls' = ncalls + 1
         /\ last'.op = "send_request"
         /\ FlatMapping(last'.params)
         /\ last'.doc )
       => ( /\ signatures' = signatures
            /\ fs' = fs
            /\ last'.dispatched
            /\ SentWith(last'.params.dict, last'.wire.params)
            /\ last'.returned = last'.resp )]_vars

\* C7 (amended): the same for a mapping that is not empty: the seen-set and
\* the files are unchanged, and unless formatting the URL raised the request is
\* dispatched with the mapping's entries (the query string's value for a key
\* both have) and the response returned.
C7_NonEmptyMappingSkipsDocumentation ==
    [][( /\ ncalls' = ncalls + 1
         /\ last'.op = "send_request"
         /\ FlatMapping(last'.params)
         /\ last'.params.dict # <<>>
         /\ last'.doc )
       => ( /\ signatures' = signatures
            /\ fs' = fs
            /\ files' = files
            /\ ~last'.doc_called
            /\ last'.error # "url"
               => ( /\ last'.dispatched
                    /\ SentWithUnlessQueried(last'.params.dict, last'.query_string,
                                             last'.wire.params)
                    /\ last'.returned = last'.resp ) )]_vars

\* C7 witness: after a request was documented, a call with a non-empty
\* mapping and recording requested was dispatched and answered.
C7_Witness ==
    /\ SentRequest /\ FlatMapping(last.params) /\ last.params.dict # <<>>
    /\ last.doc /\ last.dispatched /\ last.returned = last.resp
    /\ last.query_string # <<>>
    /\ signatures # {}

\* The documentable columns of the last call's model.
MergedColumns == Range(last.model.columns)

\* The last call was document with an explicit parameter list and a model,
\* and the merge (if it ran) did not raise.
MergedList ==
    /\ last.op = "document"
    /\ last.params.kind = "list"
    /\ last.model.given
    /\ last.error # "merge"

In == last.params.list
Out == last.params_out.list

Occurrences(list, name) == Cardinality({i \in 1..Len(list) : list[i].name = name})

\* C8 (as stated): for any explicit list, empty or not, after the merge every
\* documentable column is in the list exactly once, by wire name.
C8_EveryColumnOnce ==
    MergedList => \A c \in MergedColumns : Occurrences(Out, c.json) = 1

\* C8 (amended): for a list that is not empty, after the merge every
\* documentable column is in the list exactly once: the caller's parameters
\* stay where they were and the missing ones are appended; for an empty list
\* the merge does not run and the list stays empty.
C8_EveryColumnOnceUnlessEmpty ==
    MergedList =>
        /\ In # <<>> =>
              /\ last.merge_ran
              /\ \A c \in MergedColumns : Occurrences(Out, c.json) = 1
              /\ Len(Out) = Len(In)
                    + Cardinality({c \in MergedColumns : Occurrences(In, c.json) = 0})
              /\ \A i \in 1..Len(In) : Out[i].name = In[i].name
              /\ \A i \in (Len(In) + 1)..Len(Out) :
                    \E c \in MergedColumns : c.json = Out[i].name
        /\ In = <<>> => ~last.merge_ran /\ Out = <<>>

\* C8 witness: a merge that reused a caller's parameter and appended two.
C8_Witness ==
    /\ MergedList /\ last.merge_ran
    /\ Len(In) = 1 /\ Len(Out) = 3
    /\ Occurrences(In, "title") = 1

\* The default the merge records for a column.
ExpectedDefault(c) ==
    CASE c.default.kind = "scalar" -> c.default.arg
      [] c.default.kind = "callable" -> "function(...)"
      [] OTHER -> ""

\* The type the merge records for a column.
ExpectedType(c) ==
    CASE c.attachment -> "attachment"
      [] ~c.attachment /\ c.unreadable -> "str"
      [] OTHER -> c.python_type

\* C9 (as stated): a caller's parameter that matches a column keeps each of
\* the value, type, optionality and default the caller had set.
C9_ExplicitValuesKept ==
    MergedList =>
        \A i \in 1..Len(In) : \A c \in MergedColumns :
            c.json = In[i].name =>
                /\ In[i].value # "None" => Out[i].value = In[i].value
                /\ In[i].type_ # "None" => Out[i].type_ = In[i].type_
                /\ In[i].optional # "None" => Out[i].optional = In[i].optional
                /\ In[i].default # "None" => Out[i].default = In[i].default

\* C9 (amended): it keeps the value, type and optionality the caller had set;
\* its default is replaced by the column's, set by the caller or not.
C9_ExplicitValuesKeptButDefault ==
    MergedList =>
        \A i \in 1..Len(In) : \A c \in MergedColumns :
            c.json = In[i].name =>
                /\ Out[i].value = In[i].value
                /\ In[i].type_ # "None" => Out[i].type_ = In[i].type_
                /\ In[i].optional # "None" => Out[i].optional = In[i].optional
                /\ last.merge_ran => Out[i].default = ExpectedDefault(c)

\* C9 witness: a parameter with an explicit value, type, optionality and
\* default matched a column with another type and default.
C9_Witness ==
    /\ MergedList /\ last.merge_ran
    /\ \E i \in 1..Len(In) : \E c \in MergedColumns :
          /\ c.json = In[i].name
          /\ In[i].value = "x" /\ In[i].type_ = "int" /\ In[i].optional = "False"
          /\ In[i].default = "mine"
          /\ c.python_type = "str" /\ c.nullable = "True"
          /\ Out[i].default = "untitled"

\* C10: a caller's parameter with no type that matches a column gets the
\* column's type and the column's default (a scalar as it is, a callable as
\* 'function(...)', none as ''), gets the column's nullability as optionality
\* only if it had none, and keeps its value.
C10_Backfill ==
    (MergedList /\ last.merge_ran) =>
        \A i \in 1..Len(In) : \A c \in MergedColumns :
            (c.json = In[i].name /\ In[i].type_ = "None") =>
                /\ Out[i].type_ = ExpectedType(c)
                /\ Out[i].default = ExpectedDefault(c)
                /\ Out[i].optional = IF In[i].optional = "None" THEN c.nullable
                                     ELSE In[i].optional
                /\ Out[i].value = In[i].value

\* C10 witness: title with a value and no type, merged with a string column
\* whose default is "untitled".
C10_Witness ==
    /\ MergedList /\ last.merge_ran
    /\ \E i \in 1..Len(In) :
          /\ In[i] = FormParameter("title", "x", "None", "False", "None")
          /\ Out[i] = FormParameter("title", "x", "str", "False", "untitled")

\* The entry the last call wrote: the last entry of its file.
LastEntry ==
    LET f == fs[last.filename]
    IN  f[CHOOSE i \in 1..Len(f) :
              IsEntry(f[i]) /\ \A j \in (i + 1)..Len(f) : ~IsEntry(f[j])]

\* The optionality a caller's parameter holds once the merge is over: its own
\* when set, else the nullability of the column it matches when the merge ran.
StoredOptional(p) ==
    IF p.optional # "None" THEN p.optional
    ELSE IF last.merge_ran /\ \E c \in MergedColumns : c.json = p.name
    THEN (CHOOSE c \in MergedColumns : c.json = p.name).nullable
    ELSE "None"

\* C11: the entry of a PUT request shows True as the optionality of every
\* parameter row, the entry of any other method shows the parameter's own
\* optionality, and writing the entry leaves the optionality the parameter
\* holds as it was.
C11_DisplayOverride ==
    (last.op = "document" /\ last.outcome = "written" /\ last.params.kind = "list") =>
        /\ Len(LastEntry.rows) = Len(Out)
        /\ \A i \in 1..Len(Out) :
              /\ LastEntry.rows[i].name = Out[i].name
              /\ LastEntry.rows[i].optional =
                    IF last.method = "PUT" THEN "True" ELSE Out[i].optional
        /\ \A i \in 1..Len(In) : Out[i].optional = StoredOptional(In[i])

\* C11 witness: a PUT entry whose rows show True for a caller's parameter
\* that holds False and for a parameter taken from a column that is not
\* nullable.
C11_Witness ==
    /\ last.op = "document" /\ last.outcome = "written" /\ last.method = "PUT"
    /\ \E i, j \in 1..Len(Out) :
          /\ i <= Len(In) /\ In[i].optional = "False" /\ Out[i].optional = "False"
          /\ j > Len(In) /\ Out[j].optional = "False"
          /\ LastEntry.rows[i].optional = "True"
          /\ LastEntry.rows[j].optional = "True"

\* The last call was MetadataField.from_column.
Extracted == last.op = "from_column"

\* The annotation map the last call of from_column worked on.
Annotations == IF last.info.given THEN last.info.map ELSE last.c.info

\* The message an attachment descriptor is to carry.
AttachmentMessage ==
    IF Annotations.message.present THEN Annotations.message.value
    ELSE "Invalid File"

\* C12: for a column whose annotation map contains 'attachment', from_column
\* returns exactly two descriptors, <name>Url of type url then
\* <name>Thumbnails of type dict, each with the 'message' annotation or else
\* 'Invalid File', and none named <name>; for any other column, what it
\* returns is exactly one descriptor, named <name>.
C12_AttachmentExpansion ==
    Extracted =>
        IF Annotations.attachment
        THEN /\ ~last.raised
             /\ Len(last.result) = 2
             /\ last.result[1].json_name = <<Annotations.json, "Url">>
             /\ last.result[1].type_ = "url"
             /\ last.result[2].json_name = <<Annotations.json, "Thumbnails">>
             /\ last.result[2].type_ = "dict"
             /\ \A i \in 1..2 :
                   /\ last.result[i].message = AttachmentMessage
                   /\ last.result[i].json_name # <<Annotations.json>>
        ELSE ~last.raised =>
                /\ Len(last.result) = 1
                /\ last.result[1].json_name = <<Annotations.json>>

\* C12 witness: the attachment column photo, with a custom message, gave
\* photoUrl and photoThumbnails carrying that message.
C12_Witness ==
    /\ Extracted /\ ~last.info.given
    /\ last.c.info.attachment /\ last.c.info.json = "photo"
    /\ last.c.info.message = Message("Bad upload")
    /\ Len(last.result) = 2
    /\ last.result[1].json_name = <<"photo", "Url">>
    /\ last.result[2].json_name = <<"photo", "Thumbnails">>
    /\ last.result[2].message = "Bad upload"

\* C15: for a column without 'attachment', the type of the descriptor is the
\* string type when 'unreadable' is truthy, else the column's declared type,
\* else the name of the column's target; when the column has neither, or its
\* declared type has no Python type, from_column raises and returns nothing.
C15_TypeResolution ==
    (Extracted /\ ~Annotations.attachment) =>
        IF Annotations.unreadable = "True"
        THEN ~last.raised /\ last.result[1].type_ = "str"
        ELSE IF last.c.has_type /\ last.c.python_type # "NotImplemented"
        THEN ~last.raised /\ last.result[1].type_ = last.c.python_type
        ELSE IF ~last.c.has_type /\ last.c.has_target
        THEN ~last.raised /\ last.result[1].type_ = last.c.target_name
        ELSE last.raised /\ last.result = <<>>

\* C15 witness: a column with neither a type nor a target, not unreadable,
\* made from_column raise AttributeError with nothing returned.
C15_Witness ==
    /\ Extracted /\ ~Annotations.attachment
    /\ Annotations.unreadable # "True"
    /\ ~last.c.has_type /\ ~last.c.has_target
    /\ last.raised /\ last.error = "AttributeError"
    /\ last.result = <<>>

\* The signature document computes for the call recorded in l.
CallSignature(l) == RequestSignature(l.role, l.method, l.url, l.query_string)

\* The seen-set sigs holds a signature equal to sig.
InSet(sigs, sig) == \E s \in sigs : SignatureHash(s) = SignatureHash(sig)

\* The step is a call that reached document.
DocumentCalled == ncalls' = ncalls + 1 /\ last'.doc_called

\* The files under the destination directory dir.
FilesUnder(fsys, dir) == {f \in DOMAIN fsys : f[1] = dir}

\* C13: the seen-set is one set for all recorders: a signature recorder A
\* has documented stays in it, and a later document call with an equal
\* signature on recorder B, whose destination is another directory, is
\* skipped and writes nothing to B's destination.
C13_CrossInstanceDedup ==
    [][DocumentCalled =>
          /\ signatures \subseteq signatures'
          /\ (last'.self = "A" /\ last'.outcome = "written")
                => InSet(signatures', CallSignature(last'))
          /\ (last'.self = "B" /\ InSet(signatures, CallSignature(last')))
                => /\ last'.outcome = "skipped"
                   /\ fs' = fs
                   /\ FilesUnder(fs', "docsB") = FilesUnder(fs, "docsB")]_vars

\* C13 witness: recorder B skipped a request whose entry is in a file of
\* recorder A's destination, and B's destination holds no file.
C13_Witness ==
    /\ last.doc_called /\ last.self = "B" /\ last.outcome = "skipped"
    /\ FilesUnder(fs, "docsB") = {}
    /\ \E f \in FilesUnder(fs, "docsA") : \E i \in CompleteEntries(f) :
          /\ fs[f][i].role = last.role
          /\ fs[f][i].method = Upper(last.method)
          /\ fs[f][i].url = last.url
          /\ Keys(fs[f][i].query_string) = Keys(last.query_string)

\* The path recorder A uses for the group of the path p of recorder B.
PathOfA(p) == <<"docsA">> \o Tail(p)

\* The registry holds the path p.
InRegistry(registry, p) == \E i \in 1..Len(registry) : registry[i] = p

\* Recorder B, documenting against another destination than A, writes for
\* the first time to a group that A has created.
FirstWriteOfBToGroupOfA ==
    /\ DocumentCalled
    /\ last'.self = "B" /\ last'.acquired
    /\ InRegistry(files, PathOfA(last'.filename))
    /\ \A i \in 1..Len(files) : Tail(files[i]) = Tail(last'.filename)
                                    => files[i][1] = "docsA"

\* C14 (as stated): that write finds the group already open: the registry
\* stays as it is and no header block is written to B's file.
C14_AlreadyOpenAcrossDestinations ==
    [][FirstWriteOfBToGroupOfA =>
          /\ files' = files
          /\ \A i \in 1..Len(fs'[last'.filename]) :
                ~IsHeader(fs'[last'.filename][i])]_vars

\* C14 (amended): the registry is shared but holds full paths, destination
\* directory included: that write does not find A's path, it creates B's own
\* file under B's destination with its header block and registers its path,
\* and A's file stays as it is.
C14_RegistryKeyedByPath ==
    [][FirstWriteOfBToGroupOfA =>
          /\ last'.filename[1] = "docsB"
          /\ last'.filename \notin DOMAIN fs
          /\ IsHeader(fs'[last'.filename][1])
          /\ files' = Append(files, last'.filename)
          /\ fs'[PathOfA(last'.filename)] = fs[PathOfA(last'.filename)]]_vars

\* C14 witness: A created a group, then B wrote to the same group: both
\* files exist, each with its header, and both paths are registered.
C14_Witness ==
    /\ last.doc_called /\ last.self = "B" /\ last.acquired
    /\ last.filename[1] = "docsB"
    /\ PathOfA(last.filename) \in DOMAIN fs
    /\ IsHeader(fs[PathOfA(last.filename)][1])
    /\ IsHeader(fs[last.filename][1])
    /\ files = <<PathOfA(last.filename), last.filename>>

\* C16: a document call whose signature is in the seen-set returns at once:
\* the seen-set, the registry, the files and the open file objects are as
\* before, and the caller's params are as passed (the merge is not run).
C16_DuplicateIsNoOp ==
    [][(DocumentCalled /\ InSet(signatures, CallSignature(last')))
          => /\ last'.outcome = "skipped"
             /\ signatures' = signatures
             /\ files' = files
             /\ fs' = fs
             /\ open_files' = open_files
             /\ ~last'.acquired
             /\ ~last'.merge_ran
             /\ last'.params_out = last'.params]_vars

\* C16 witness: a skipped call that came with a parameter list and a model,
\* for which the merge would have run.
C16_Witness ==
    /\ last.doc_called /\ last.outcome = "skipped"
    /\ last.params.kind = "list" /\ last.params.list # <<>>
    /\ last.model.given /\ last.model.columns # <<>>
    /\ last.params_out = last.params
    /\ InSet(signatures, CallSignature(last))

\* What the step appended to the file f.
NewChunks(f) ==
    SubSeq(fs'[f], (IF f \in DOMAIN fs THEN Len(fs[f]) ELSE 0) + 1, Len(fs'[f]))

\* The step wrote the complete entry of its request.
WroteCompleteEntry ==
    /\ last'.acquired
    /\ \E c \in Range(NewChunks(last'.filename)) : IsEntry(c) /\ c.complete

\* C17: after a document call its signature is in the seen-set exactly when
\* it was there before or the call wrote its complete entry, and no other
\* signature comes or goes; a call whose signature is not in the set is not
\* skipped, so a request whose entry failed is documented again.
C17_SeenOnlyOnSuccess ==
    [][DocumentCalled =>
          /\ InSet(signatures', CallSignature(last'))
                <=> (InSet(signatures, CallSignature(last')) \/ WroteCompleteEntry)
          /\ signatures' \ {CallSignature(last')} = signatures \ {CallSignature(last')}
          /\ ~InSet(signatures, CallSignature(last')) => last'.outcome # "skipped"]_vars

\* C17 witness: a file holds an entry whose writing failed and, after it,
\* the complete entry of an equal request, whose signature is now seen.
C17_Witness ==
    \E f \in DOMAIN fs : \E i, j \in 1..Len(fs[f]) :
        /\ i < j
        /\ IsEntry(fs[f][i]) /\ ~fs[f][i].complete
        /\ IsEntry(fs[f][j]) /\ fs[f][j].complete
        /\ fs[f][i].role = fs[f][j].role
        /\ fs[f][i].method = fs[f][j].method
        /\ fs[f][i].url = fs[f][j].url
        /\ Keys(fs[f][i].query_string) = Keys(fs[f][j].query_string)
        /\ last.outcome = "written"
        /\ InSet(signatures, CallSignature(last))

\* The value the dict d holds for the key k.
DictGet(d, k) == d[CHOOSE i \in 1..Len(d) : d[i].key = k].value

\* The entries of the dict d under other keys than k.
Others(d, k) == SelectSeq(d, LAMBDA e : e.key # k)

\* The header is in the environ exactly when the token is not None, once,
\* with the token as its value.
HeaderAgrees(environ, token) ==
    /\ DictHas(environ, JwtHeaderKey) <=> token # "None"
    /\ token # "None" =>
          /\ DictGet(environ, JwtHeaderKey) = token
          /\ Len(Others(environ, JwtHeaderKey)) = Len(environ) - 1

\* C20: after any sequence of assignments to a recorder's jwt_token, its
\* extra_environ holds HTTP_X_JWT_TOKEN exactly when the last value assigned
\* is not None, with that value; an assignment touches no other key and no
\* other recorder, and assigning None when the key is absent changes nothing
\* in extra_environ.
C20_JwtHeaderInvariant ==
    /\ [](\A i \in Assigned : HeaderAgrees(extra_environ[i], jwt_token[i]))
    /\ [][last'.op = "jwt_token" =>
            /\ jwt_token'[last'.self] = last'.value
            /\ \A i \in Instances \ {last'.self} :
                  extra_environ'[i] = extra_environ[i]
            /\ Others(extra_environ'[last'.self], JwtHeaderKey)
                  = Others(extra_environ[last'.self], JwtHeaderKey)
            /\ (last'.value = "None"
                  /\ ~DictHas(extra_environ[last'.self], JwtHeaderKey))
                  => extra_environ' = extra_environ]_vars

\* C20 witness: recorder A, constructed with the header and another key, was
\* assigned None last and holds the other key only; recorder B was assigned
\* a token last and holds it in the header.
C20_Witness ==
    /\ last.op = "jwt_token" /\ last.assigned = {"A", "B"}
    /\ last.self = "A" /\ last.value = "None"
    /\ jwt_token["A"] = "None"
    /\ extra_environ["A"] = <<Item("REMOTE_USER", "u")>>
    /\ jwt_token["B"] = "t2"
    /\ DictGet(extra_environ["B"], JwtHeaderKey) = "t2"

\* The segments of the path after the leading slash that are not empty.
NonEmptySegments(url) == SelectSeq(PathParts(url), LAMBDA p : p # <<>>)

\* The last call wrote to a file named by the multi-segment rule.
MultiSegmentRuleApplied ==
    /\ last.acquired
    /\ Len(last.filename) >= 3
    /\ SubSeq(last.filename, Len(last.filename) - 2, Len(last.filename))
          = <<"_", Lower(last.method), ".md">>

\* C18 (as stated): a path with exactly one non-empty segment after the
\* leading slash goes to the group of that segment, as /<s> does, and the
\* multi-segment rule applies only to paths with two non-empty segments or
\* more.
C18_NonEmptySegmentsCounted ==
    (last.op = "document" /\ last.url # <<>> /\ Head(last.url) = "/") =>
        /\ \A s1 \in SegmentNames :
              NonEmptySegments(last.url) = <<<<s1>>>> => WroteGroup(<<s1>>, <<s1>>)
        /\ MultiSegmentRuleApplied => Len(NonEmptySegments(last.url)) >= 2

\* The real URLs of the template /v1/widgets/%s with 7 and with 8.
RealUrl7 == <<"/", "v1", "/", "widgets", "/", "7">>
RealUrl8 == <<"/", "v1", "/", "widgets", "/", "8">>

\* The step is a call of send_request that reached document.
SendDocumented == DocumentCalled /\ last'.op = "send_request"

\* C19: send_request hands document the url argument, not the real URL:
\* the signature of a request it documented is that of the URL template, and
\* a later send_request with the same role, method, template and query keys
\* is dispatched to its own real URL, whatever its url_params, and skipped
\* by document.
C19_DedupOnTemplate ==
    [][SendDocumented =>
          /\ last'.outcome = "written" => InSet(signatures', CallSignature(last'))
          /\ InSet(signatures, CallSignature(last'))
                => /\ last'.dispatched
                   /\ last'.wire.url \in requests'
                   /\ last'.url_params # <<>>
                         => last'.wire.url[Len(last'.url)] = last'.url_params[1]
                   /\ last'.outcome = "skipped"
                   /\ signatures' = signatures
                   /\ fs' = fs]_vars

\* C19 witness: /v1/widgets/7 and /v1/widgets/8 were both dispatched for the
\* template /v1/widgets/%s, the last of them was skipped, and the files hold
\* one entry, under the template.
C19_Witness ==
    /\ SentRequest /\ last.doc_called /\ last.dispatched
    /\ last.url = UrlTemplate /\ last.outcome = "skipped"
    /\ {RealUrl7, RealUrl8} \subseteq requests
    /\ last.wire.url \in {RealUrl7, RealUrl8}
    /\ \A f \in DOMAIN fs : \A i \in 1..Len(fs[f]) :
          IsEntry(fs[f][i]) => fs[f][i].url = UrlTemplate
    /\ Cardinality(UNION {{<<f, i>> : i \in CompleteEntries(f)} : f \in DOMAIN fs}) = 1

====
